---------------------------- MODULE Spec2Model ----------------------------
(***************************************************************************)
(* FAA aircraft-reference extraction (pybokeh/faa-extract).                *)
(*                                                                         *)
(* faa_assets.py holds the dataset registry (data_sets), the fetch-and-    *)
(* parse function (extract_aircraft_data) and the unit factory             *)
(* (build_asset); faa_definitions.py builds one unit per descriptor, puts  *)
(* them in one job and binds the job to a weekly cron schedule.            *)
(*                                                                         *)
(* Three specifications share the variables:                               *)
(*   Spec      one unit of the job is executed on any HTTP response        *)
(*   SpecRun   several units of one run are executed in any interleaving   *)
(*   SpecSched the clock advances and the schedule launches runs           *)
(***************************************************************************)
EXTENDS Integers, Sequences, FiniteSets, TLC

(***************************************************************************)
(* Bounds of the model.                                                    *)
(***************************************************************************)
\* rows of the file held by the first entry of an archive
MaxRows == 6
\* entries of an archive
MaxEntries == 2
\* units of the job followed through one run in SpecRun
MaxUnits == 2
\* runs launched by the schedule in SpecSched
MaxRuns == 2

\* Python's None (the "date" of a descriptor without a date column).
None == "None"

(***************************************************************************)
(* The registry: faa_assets.py, data_sets.                                 *)
(***************************************************************************)
ACREF == "https://av-info.faa.gov/dd_sublevel.asp?Folder=\\ACREF"
REFERENCE == "https://av-info.faa.gov/dd_sublevel.asp?Folder=\\REFERENCE"

registry ==
  << [group |-> "aircraft", name |-> "aircraft",
      url |-> "https://av-info.faa.gov/data/ACRef/tab/aircraft.zip",
      date |-> "Last_Change_Date", site |-> ACREF],
     [group |-> "aircraft", name |-> "ata_codes",
      url |-> "https://av-info.faa.gov/data/ACREF/tab/ata.zip",
      date |-> "Last_Change_Date", site |-> ACREF],
     [group |-> "aircraft", name |-> "compt",
      url |-> "https://av-info.faa.gov/data/ACREF/tab/compt.zip",
      date |-> "Last_Change_Date", site |-> ACREF],
     [group |-> "aircraft", name |-> "engine",
      url |-> "https://av-info.faa.gov/data/ACREF/tab/engine.zip",
      date |-> "Last_Change_Date", site |-> ACREF],
     [group |-> "aircraft", name |-> "prop",
      url |-> "https://av-info.faa.gov/data/ACREF/tab/prop.zip",
      date |-> "Last_Change_Date", site |-> ACREF],
     [group |-> "reference", name |-> "aircraft_ref",
      url |-> "https://av-info.faa.gov/data/REFERENCE/tab/aircraft.zip",
      date |-> None, site |-> REFERENCE],
     [group |-> "reference", name |-> "acseries",
      url |-> "https://av-info.faa.gov/data/REFERENCE/tab/acseries.zip",
      date |-> "LCHG_DATE", site |-> REFERENCE],
     [group |-> "reference", name |-> "airmanuf",
      url |-> "https://av-info.faa.gov/data/REFERENCE/tab/airmanuf.zip",
      date |-> "LCHG_DATE", site |-> REFERENCE],
     [group |-> "reference", name |-> "airport",
      url |-> "https://av-info.faa.gov/data/REFERENCE/tab/airport.zip",
      date |-> "LCHG_DATE", site |-> REFERENCE],
     [group |-> "reference", name |-> "country",
      url |-> "https://av-info.faa.gov/data/REFERENCE/tab/country.zip",
      date |-> "LCHG_DATE", site |-> REFERENCE],
     [group |-> "reference", name |-> "distoffc",
      url |-> "https://av-info.faa.gov/data/REFERENCE/tab/distoffc.zip",
      date |-> "LCHG_DATE", site |-> REFERENCE],
     [group |-> "reference", name |-> "makemodl",
      url |-> "https://av-info.faa.gov/data/REFERENCE/tab/makemodl.zip",
      date |-> "LCHG_DATE", site |-> REFERENCE],
     [group |-> "reference", name |-> "simulatr",
      url |-> "https://av-info.faa.gov/data/REFERENCE/tab/simulatr.zip",
      date |-> "LCHG_DATE", site |-> REFERENCE],
     [group |-> "reference", name |-> "state",
      url |-> "https://av-info.faa.gov/data/REFERENCE/tab/state.zip",
      date |-> "LCHG_DATE", site |-> REFERENCE] >>

\* a registry whose sixth descriptor repeats the group and name of the first
data_sets_dup == [registry EXCEPT ![6].group = "aircraft", ![6].name = "aircraft"]

data_sets == registry

Min(a, b) == IF a <= b THEN a ELSE b

(***************************************************************************)
(* What a download can hold.  A file is tab-delimited text: a header line  *)
(* and rows of raw cells.  The first column is an identifier, the second   *)
(* is named as one of the registry's date columns and holds date text,     *)
(* the NA marker "N/A" or text that is no date.                            *)
(***************************************************************************)
DateCols == {data_sets[i].date : i \in 1..Len(data_sets)} \ {None}

DateText == "2023-01-15"
NAText == "N/A"
JunkText == "unknown"

\* the raw cells of row i of a file of n rows whose row pos holds cell bad
RawRow(i, pos, bad) == << "A" \o ToString(i), IF i = pos THEN bad ELSE DateText >>

FileOf(dc, n, pos, bad) ==
  [header |-> << "TC_DATA_SHEET", dc >>,
   rows |-> [i \in 1..n |-> RawRow(i, pos, bad)]]

Files ==
  { FileOf(dc, n, 0, DateText) : dc \in DateCols, n \in 0..MaxRows }
  \cup { FileOf(dc, n, pos, bad) : dc \in DateCols, n \in 1..MaxRows,
                                   pos \in {1}, bad \in {NAText, JunkText} }
  \cup { FileOf(dc, n, n, bad) : dc \in DateCols, n \in 2..MaxRows,
                                 bad \in {NAText, JunkText} }

\* the files of the further entries of an archive
OtherFiles == { f \in Files : Len(f.rows) <= 1 /\ \A i \in 1..Len(f.rows) : f.rows[i][2] = DateText }

EntryNames == {"aircraft.tab", "readme.tab"}

FirstEntries == [name : EntryNames, file : Files]
OtherEntries == [name : EntryNames, file : OtherFiles]

RECURSIVE Tails(_)
\* the sequences of at most k further entries
Tails(k) ==
  IF k = 0 THEN { << >> }
  ELSE { << >> } \cup { <<e>> \o t : e \in OtherEntries, t \in Tails(k - 1) }

\* a response body: bytes that are a ZIP archive (its entries in the order
\* of the internal listing) or bytes that are none
NotZip == [zip |-> FALSE, entries |-> << >>]
Archives ==
  { [zip |-> TRUE, entries |-> << >>] }
  \cup { [zip |-> TRUE, entries |-> <<e>> \o t] : e \in FirstEntries, t \in Tails(MaxEntries - 1) }

SampleArchive ==
  [zip |-> TRUE,
   entries |-> << [name |-> "aircraft.tab", file |-> FileOf("Last_Change_Date", 1, 0, DateText)] >>]

\* what requests.get gives: an exception (a timeout, a refused connection)
\* or a response with a status and a body
Responses ==
  { [raised |-> TRUE, status_code |-> 0, content |-> NotZip] }
  \cup [raised : {FALSE}, status_code : {200}, content : Archives \cup {NotZip}]
  \cup [raised : {FALSE}, status_code : {204, 404, 500}, content : {NotZip, SampleArchive}]


(***************************************************************************)
(* Values of a parsed table (pandas): text, a timestamp, the missing       *)
(* number NaN and the missing timestamp NaT.                               *)
(***************************************************************************)
Str(s) == [kind |-> "str", v |-> s]
Timestamp(s) == [kind |-> "Timestamp", v |-> s \o " 00:00:00"]
NaN == [kind |-> "float", v |-> "nan"]
NaT == [kind |-> "NaT", v |-> "NaT"]

\* an exception leaving the function, and a returned DataFrame
Raise(e) == [ok |-> FALSE, error |-> e, columns |-> << >>, rows |-> << >>]
DataFrame(cols, rows) == [ok |-> TRUE, error |-> "", columns |-> cols, rows |-> rows]

\* pd.read_csv: cells it reads as missing (its default na_values)
IsNA(s) == s \in {"", "N/A", "NA", "NaN", "nan", "NULL", "null", "n/a", "#N/A"}
\* text the date parser accepts
IsDateText(s) == s \in {DateText}

\* pd.read_csv without parse_dates: text cells, missing ones as NaN
ReadCell(s) == IF IsNA(s) THEN NaN ELSE Str(s)

\* the parse_dates conversion of one column: when every cell that is not
\* missing is date text the column becomes timestamps (missing: NaT);
\* otherwise pandas returns the column unaltered, as text
ParseDateColumn(cells) ==
  IF \A i \in 1..Len(cells) : IsNA(cells[i]) \/ IsDateText(cells[i])
  THEN [i \in 1..Len(cells) |-> IF IsNA(cells[i]) THEN NaT ELSE Timestamp(cells[i])]
  ELSE [i \in 1..Len(cells) |-> ReadCell(cells[i])]

ColumnIndex(header, c) == CHOOSE k \in 1..Len(header) : header[k] = c

\* pd.read_csv(csv_file, delimiter="\t"[, parse_dates=[date]])
read_csv(file, date) ==
  LET n == Len(file.rows)
      plain == [i \in 1..n |-> [k \in 1..Len(file.header) |-> ReadCell(file.rows[i][k])]]
  IN IF date = None THEN DataFrame(file.header, plain)
     ELSE IF \A k \in 1..Len(file.header) : file.header[k] # date
     THEN Raise("ValueError")
     ELSE LET c == ColumnIndex(file.header, date)
              col == ParseDateColumn([i \in 1..n |-> file.rows[i][c]])
          IN DataFrame(file.header,
                       [i \in 1..n |-> [k \in 1..Len(file.header) |->
                           IF k = c THEN col[i] ELSE plain[i][k]]])

\* zip_ref.namelist()
namelist(archive) == [i \in 1..Len(archive.entries) |-> archive.entries[i].name]

\* zip_ref.open(name): ZipFile looks the name up in its name table, where a
\* later entry of the same name has replaced an earlier one
zip_open(archive, name) ==
  LET hits == {i \in 1..Len(archive.entries) : archive.entries[i].name = name}
      last == CHOOSE i \in hits : \A j \in hits : j <= i
  IN archive.entries[last].file

\* extract_aircraft_data with df bound to an empty DataFrame before the
\* status is tested
extract_df_preset(date, response) ==
  IF response.raised THEN Raise("RequestException")
  ELSE IF response.status_code # 200 THEN DataFrame(<< >>, << >>)
  ELSE IF ~response.content.zip THEN Raise("BadZipFile")
  ELSE IF Len(response.content.entries) = 0 THEN Raise("IndexError")
  ELSE read_csv(zip_open(response.content, namelist(response.content)[1]), date)

\* extract_aircraft_data reading the entries in a loop, so that an archive
\* without entries gives an empty DataFrame
extract_loop(date, response) ==
  IF response.raised THEN Raise("RequestException")
  ELSE IF response.status_code # 200 THEN Raise("UnboundLocalError")
  ELSE IF ~response.content.zip THEN Raise("BadZipFile")
  ELSE IF Len(response.content.entries) = 0 THEN DataFrame(<< >>, << >>)
  ELSE read_csv(zip_open(response.content, namelist(response.content)[1]), date)

\* extract_aircraft_data(date, url), on the response requests.get(url) gave
extract_aircraft_data(date, response) ==
  IF response.raised THEN Raise("RequestException")
  ELSE IF response.status_code # 200 THEN Raise("UnboundLocalError")
  ELSE IF ~response.content.zip THEN Raise("BadZipFile")
  ELSE IF Len(response.content.entries) = 0 THEN Raise("IndexError")
  ELSE LET csv_path == namelist(response.content)[1]
       IN read_csv(zip_open(response.content, csv_path), date)


(***************************************************************************)
(* The unit factory: faa_assets.py, build_asset.                           *)
(***************************************************************************)
\* df.head(): the default number of rows
HeadRows == 5

\* DataFrame.tail(): the last rows
tail(df) ==
  DataFrame(df.columns,
            SubSeq(df.rows, Len(df.rows) - Min(Len(df.rows), HeadRows) + 1, Len(df.rows)))

\* DataFrame.head()
head(df) == DataFrame(df.columns, SubSeq(df.rows, 1, Min(Len(df.rows), HeadRows)))

\* DataFrame.to_markdown(index=False): the header and one line of rendered
\* cells per row
to_markdown(df) ==
  [header |-> df.columns,
   lines |-> [i \in 1..Len(df.rows) |-> [k \in 1..Len(df.columns) |-> df.rows[i][k].v]]]

\* MetadataValue.md; a text is kept as the sequence of its parts
md(text) == [type |-> "md", md_str |-> text]

\* the Output the body of _asset returns for the DataFrame df
AssetOutput(data_set, df) ==
  [value |-> df,
   metadata |->
     [website |-> md(<< "This data was obtained from this ",
                        "[website](" \o data_set.site \o ")", "." >>),
      preview |-> md(to_markdown(head(df)))]]

\* build_asset with _asset reading the loop variable of the comprehension
\* when it runs, after the loop has ended on the last descriptor
build_asset_late(data_set) ==
  [name |-> data_set.name,
   group_name |-> data_set.group,
   compute_kind |-> "duckdb",
   io_manager_key |-> "faa_io_manager",
   key_prefix |-> data_set.group,
   data_set |-> registry[Len(registry)]]

\* build_asset(data_set): the decorated _asset, which keeps the data_set it
\* was built for
build_asset(data_set) ==
  [name |-> data_set.name,
   group_name |-> data_set.group,
   compute_kind |-> "duckdb",
   io_manager_key |-> "faa_io_manager",
   key_prefix |-> data_set.group,
   data_set |-> data_set]

\* an asset key without the name: the schema alone
AssetKeyOfGroup(unit) == << unit.key_prefix >>

\* the asset key of a unit, which is where the I/O manager stores its value
\* (schema key_prefix, table name)
AssetKey(unit) == << unit.key_prefix, unit.name >>

(***************************************************************************)
(* faa_definitions.py                                                      *)
(***************************************************************************)
faa_assets == [i \in 1..Len(data_sets) |-> build_asset(data_sets[i])]

\* a job that selects the units of the first group only
faa_job_first_group ==
  [name |-> "faa_job",
   selection |-> SelectSeq(faa_assets, LAMBDA a : a.group_name = faa_assets[1].group_name)]

faa_job == [name |-> "faa_job", selection |-> faa_assets]

\* cron_schedule="0 17 * * MON": minute, hour, day of month, month, day of week
faa_schedule == [job |-> faa_job, cron_schedule |-> << "0", "17", "*", "*", "MON" >>]

defs ==
  [assets |-> faa_assets,
   schedules |-> << faa_schedule >>,
   resources |-> [faa_io_manager |-> [database |-> [env |-> "DUCKDB_FAA_DB"]]]]

Units == 1..Len(faa_assets)

(***************************************************************************)
(* State.                                                                  *)
(***************************************************************************)
VARIABLES
  pc,        \* pc[u]: where the execution of unit u stands
  call,      \* call[u]: the arguments of its call of extract_aircraft_data
  response,  \* response[u]: what requests.get gave it
  df,        \* df[u]: what extract_aircraft_data returned or raised
  output,    \* output[u]: the Output _asset returned
  store,     \* the storage layer: asset key -> what was published under it
  now,       \* the clock: minutes since Sunday 00:00
  ticked,    \* the schedule was evaluated for the minute now
  launches   \* the runs the schedule launched

vars == << pc, call, response, df, output, store, now, ticked, launches >>
unitVars == << pc, call, response, df, output, store >>
schedVars == << now, ticked, launches >>

Init ==
  /\ pc = [u \in Units |-> "idle"]
  /\ call = [u \in Units |-> << >>]
  /\ response = [u \in Units |-> << >>]
  /\ df = [u \in Units |-> << >>]
  /\ output = [u \in Units |-> << >>]
  /\ store = << >>
  /\ now = 0
  /\ ticked = FALSE
  /\ launches = << >>

(***************************************************************************)
(* The execution of one unit: _asset, lines 155-166, and the I/O manager.  *)
(***************************************************************************)
\* _asset calls extract_aircraft_data(data_set["date"], data_set["url"]),
\* which issues the GET; the orchestrator has at most limit units started
HttpGet(u, limit, answers) ==
  /\ pc[u] = "idle"
  /\ Cardinality({v \in Units : pc[v] # "idle"}) < limit
  /\ \E r \in answers :
       /\ call' = [call EXCEPT ![u] = << [date |-> faa_assets[u].data_set.date,
                                          url |-> faa_assets[u].data_set.url] >>]
       /\ response' = [response EXCEPT ![u] = << r >>]
  /\ pc' = [pc EXCEPT ![u] = "fetched"]
  /\ UNCHANGED << df, output, store, schedVars >>

\* _asset catching the exception of extract_aircraft_data and returning an
\* Output for an empty DataFrame
BodyCatching(unit, date, resp) ==
  LET d == extract_aircraft_data(date, resp)
      e == IF d.ok THEN d ELSE DataFrame(<< >>, << >>)
  IN [df |-> e, output |-> << AssetOutput(unit.data_set, e) >>, raised |-> FALSE]

\* what the rest of _asset does with the response: the DataFrame or the
\* exception of extract_aircraft_data and, for a DataFrame, the Output
Body(unit, date, resp) ==
  LET d == extract_aircraft_data(date, resp)
  IN [df |-> d,
      output |-> IF d.ok THEN << AssetOutput(unit.data_set, d) >> ELSE << >>,
      raised |-> ~d.ok]

\* the rest of extract_aircraft_data and of _asset, returning the Output
Compute(u) ==
  /\ pc[u] = "fetched"
  /\ LET b == Body(faa_assets[u], call[u][1].date, response[u][1])
     IN /\ ~b.raised
        /\ df' = [df EXCEPT ![u] = << b.df >>]
        /\ output' = [output EXCEPT ![u] = b.output]
  /\ pc' = [pc EXCEPT ![u] = "computed"]
  /\ UNCHANGED << call, response, store, schedVars >>

\* the same, an exception leaving _asset: the orchestrator records the
\* failure of the step
Fail(u) ==
  /\ pc[u] = "fetched"
  /\ LET b == Body(faa_assets[u], call[u][1].date, response[u][1])
     IN /\ b.raised
        /\ df' = [df EXCEPT ![u] = << b.df >>]
        /\ output' = [output EXCEPT ![u] = b.output]
  /\ pc' = [pc EXCEPT ![u] = "failed"]
  /\ UNCHANGED << call, response, store, schedVars >>

\* the I/O manager stores the Output under the unit's asset key
Publish(u) ==
  /\ pc[u] = "computed"
  /\ store' = (AssetKey(faa_assets[u]) :> output[u][1]) @@ store
  /\ pc' = [pc EXCEPT ![u] = "published"]
  /\ UNCHANGED << call, response, df, output, schedVars >>

\* one unit, any response
Next ==
  \E u \in Units :
    \/ HttpGet(u, 1, Responses)
    \/ Compute(u)
    \/ Fail(u)
    \/ Publish(u)

Spec == Init /\ [][Next]_vars


(***************************************************************************)
(* One run of the job: its units are executed in any order and overlap.    *)
(***************************************************************************)
\* the answers of a run: a 404, and a 200 whose archive holds one file of
\* one row, under either date column
RunResponses ==
  { [raised |-> FALSE, status_code |-> 404, content |-> NotZip] }
  \cup { [raised |-> FALSE, status_code |-> 200,
          content |-> [zip |-> TRUE,
                       entries |-> << [name |-> "aircraft.tab",
                                       file |-> FileOf(dc, 1, 0, DateText)] >>]] :
         dc \in DateCols }

NextRun ==
  \E u \in Units :
    \/ HttpGet(u, MaxUnits, RunResponses)
    \/ Compute(u)
    \/ Fail(u)
    \/ Publish(u)

SpecRun == Init /\ [][NextRun]_vars

(***************************************************************************)
(* The schedule: faa_definitions.py, faa_schedule.                         *)
(***************************************************************************)
DayNames == << "SUN", "MON", "TUE", "WED", "THU", "FRI", "SAT" >>

\* a cron field against the value of the clock
FieldMatches(field, value) == field = "*" \/ field = value

\* the cron expression against minute t of the week; the clock of the model
\* carries no day of month and no month, which match a "*" only
CronMatches(cron, t) ==
  /\ FieldMatches(cron[1], ToString(t % 60))
  /\ FieldMatches(cron[2], ToString((t \div 60) % 24))
  /\ cron[3] = "*"
  /\ cron[4] = "*"
  /\ FieldMatches(cron[5], DayNames[(t \div 1440) + 1])

\* the minutes of the week at which a schedule of defs launches a run
TriggerMinutes ==
  { t \in 0..10079 :
      \E k \in 1..Len(defs.schedules) : CronMatches(defs.schedules[k].cron_schedule, t) }

\* the steps of a run of the job: the asset keys of its selection
JobSteps(job) == { AssetKey(job.selection[i]) : i \in 1..Len(job.selection) }

\* a minute passes
Tick ==
  /\ now' = (now + 1) % 10080
  /\ ticked' = FALSE
  /\ UNCHANGED << launches, unitVars >>

\* the scheduler evaluates the schedules of defs at a minute their cron
\* expression matches and launches a run of the job of each
Trigger ==
  /\ ~ticked
  /\ Len(launches) < MaxRuns
  /\ \E k \in 1..Len(defs.schedules) :
       /\ CronMatches(defs.schedules[k].cron_schedule, now)
       /\ launches' = Append(launches,
             [at |-> now, job |-> defs.schedules[k].job.name,
              steps |-> JobSteps(defs.schedules[k].job)])
  /\ ticked' = TRUE
  /\ UNCHANGED << now, unitVars >>

NextSched == Tick \/ Trigger

SpecSched == Init /\ [][NextSched]_vars


(***************************************************************************)
(* Properties.                                                             *)
(***************************************************************************)
\* extract_aircraft_data has returned or raised in unit u
Ran(u) == pc[u] \in {"computed", "published", "failed"}
Key(u) == AssetKey(faa_assets[u])
\* the response of u is a 200 whose body is an archive with an entry
GoodArchive(u) ==
  /\ ~response[u][1].raised
  /\ response[u][1].status_code = 200
  /\ response[u][1].content.zip
  /\ Len(response[u][1].content.entries) >= 1
\* the file extract_aircraft_data read in unit u
FileRead(u) == zip_open(response[u][1].content, namelist(response[u][1].content)[1])
InHeader(file, c) == \E k \in 1..Len(file.header) : file.header[k] = c

\* C1: whatever the URL and the date column, a GET answered with a status
\* other than 200 ends the call in an error: no DataFrame is returned, the
\* unit fails and nothing is published under its key.
Non200Fails ==
  \A u \in Units :
    (Ran(u) /\ ~response[u][1].raised /\ response[u][1].status_code # 200)
      => /\ pc[u] = "failed"
         /\ ~df[u][1].ok
         /\ output[u] = << >>
         /\ Key(u) \notin DOMAIN store

\* a unit has failed on a 204 whose body is a valid archive
Non200Witness ==
  \E u \in Units :
    /\ pc[u] = "failed"
    /\ response[u][1].status_code = 204
    /\ response[u][1].content = SampleArchive

\* C2 (as claimed): with a date column, every value of that column in a
\* returned DataFrame is a timestamp, and a file holding in that column a
\* cell that is no date ("N/A", "unknown") makes the call fail.
DateColumnParsedOrFails ==
  \A u \in Units :
    (Ran(u) /\ GoodArchive(u) /\ call[u][1].date # None
       /\ InHeader(FileRead(u), call[u][1].date))
      => LET c == ColumnIndex(FileRead(u).header, call[u][1].date)
         IN /\ df[u][1].ok =>
                 \A i \in 1..Len(df[u][1].rows) : df[u][1].rows[i][c].kind = "Timestamp"
            /\ (\E i \in 1..Len(FileRead(u).rows) : ~IsDateText(FileRead(u).rows[i][c]))
                 => ~df[u][1].ok

\* C3: no two descriptors of data_sets share the pair (group, name); the
\* units being executed are those of the descriptors, one each.
RegistryKeysUnique ==
  /\ DOMAIN pc = 1..Len(data_sets)
  /\ \A i, j \in 1..Len(data_sets) :
       i # j => << data_sets[i].group, data_sets[i].name >>
                  # << data_sets[j].group, data_sets[j].name >>

\* two units of one group have both published
RegistryKeysWitness ==
  \E u, v \in Units :
    /\ u # v
    /\ data_sets[u].group = data_sets[v].group
    /\ pc[u] = "published"
    /\ pc[v] = "published"

\* C4: a unit publishes its complete artifact (every row of the DataFrame
\* and both metadata items) or fails with nothing published; the unit
\* fails exactly when the GET, the archive or the parse raises.
AllOrNothing ==
  \A u \in Units :
    /\ pc[u] = "published" =>
         /\ Key(u) \in DOMAIN store
         /\ df[u][1].ok
         /\ store[Key(u)].value = df[u][1]
         /\ Len(store[Key(u)].value.rows) = Len(FileRead(u).rows)
         /\ DOMAIN store[Key(u)].metadata = {"website", "preview"}
    /\ pc[u] # "published" => Key(u) \notin DOMAIN store
    /\ pc[u] = "failed" => output[u] = << >>
    /\ Ran(u) =>
         (pc[u] = "failed" <=>
            \/ response[u][1].raised
            \/ response[u][1].status_code # 200
            \/ ~response[u][1].content.zip
            \/ Len(response[u][1].content.entries) = 0
            \/ ~read_csv(FileRead(u), call[u][1].date).ok)

\* a unit has failed in the parse (the date column is not in the file)
AllOrNothingWitness ==
  \E u \in Units :
    /\ pc[u] = "failed"
    /\ GoodArchive(u)
    /\ df[u][1].error = "ValueError"

\* C5: there is one unit per descriptor, in the order of data_sets; unit u
\* calls extract_aircraft_data with the date and the URL of descriptor u and
\* publishes under the group and name of descriptor u, and nowhere else.
OneUnitPerDescriptor ==
  /\ Len(faa_assets) = Len(data_sets)
  /\ \A u \in Units :
       /\ faa_assets[u].name = data_sets[u].name
       /\ faa_assets[u].group_name = data_sets[u].group
       /\ call[u] # << >> =>
            call[u][1] = [date |-> data_sets[u].date, url |-> data_sets[u].url]
       /\ pc[u] = "published" =>
            /\ << data_sets[u].group, data_sets[u].name >> \in DOMAIN store
            /\ store[<< data_sets[u].group, data_sets[u].name >>] = output[u][1]
  /\ DOMAIN store \subseteq
       { << data_sets[u].group, data_sets[u].name >> : u \in {v \in Units : pc[v] = "published"} }

\* a unit other than the last of the registry has published
OneUnitWitness ==
  \E u \in Units :
    /\ u < Len(data_sets)
    /\ data_sets[u].url # data_sets[Len(data_sets)].url
    /\ pc[u] = "published"

\* C6: in a run, in any interleaving, distinct units have distinct keys, the
\* store holds exactly the keys of the units that have published, and what
\* it holds under the key of a unit is the artifact of that unit's own
\* response, whatever the other units did and in whatever order.
UnitsIndependent ==
  /\ \A u, v \in Units : u # v => Key(u) # Key(v)
  /\ DOMAIN store = { Key(u) : u \in {v \in Units : pc[v] = "published"} }
  /\ \A u \in Units :
       pc[u] = "published" =>
         store[Key(u)] = AssetOutput(data_sets[u],
                           extract_aircraft_data(data_sets[u].date, response[u][1]))

\* two units of one group: one has published, then the other has failed
UnitsIndependentWitness ==
  \E u, v \in Units :
    /\ u # v
    /\ data_sets[u].group = data_sets[v].group
    /\ pc[u] = "published"
    /\ pc[v] = "failed"

\* C7: the website metadata holds a markdown link to the descriptor's site;
\* the preview holds the first min(n, 5) rows of the n rows of the result,
\* in order, and the published value holds all n rows.
PreviewAndLink ==
  \A u \in Units :
    pc[u] \in {"computed", "published"} =>
      LET o == output[u][1]
          n == Len(FileRead(u).rows)
          k == IF n <= 5 THEN n ELSE 5
      IN /\ \E i \in 1..Len(o.metadata.website.md_str) :
              o.metadata.website.md_str[i] = "[website](" \o data_sets[u].site \o ")"
         /\ o.metadata.website.type = "md"
         /\ o.metadata.preview.type = "md"
         /\ Len(o.value.rows) = n
         /\ Len(o.metadata.preview.md_str.lines) = k
         /\ \A i \in 1..k :
              \A c \in 1..Len(o.value.columns) :
                o.metadata.preview.md_str.lines[i][c] = o.value.rows[i][c].v
         /\ pc[u] = "published" => store[Key(u)] = o

\* a unit has published a result of more than five rows
PreviewWitness ==
  \E u \in Units :
    /\ pc[u] = "published"
    /\ Len(store[Key(u)].value.rows) > 5
    /\ Len(store[Key(u)].metadata.preview.md_str.lines) = 5

\* C8: defs holds one schedule; its job selects exactly the units of
\* data_sets; its cron expression matches Monday 17:00 and no other minute
\* of the week; every run was launched then and holds every unit.
ScheduleCoversRegistry ==
  /\ Len(defs.schedules) = 1
  /\ defs.schedules[1].job = faa_job
  /\ Len(faa_job.selection) = Len(data_sets)
  /\ JobSteps(faa_job) =
       { << data_sets[i].group, data_sets[i].name >> : i \in 1..Len(data_sets) }
  /\ TriggerMinutes = {1440 + 17 * 60}
  /\ \A r \in 1..Len(launches) :
       /\ launches[r].at = 1440 + 17 * 60
       /\ launches[r].job = "faa_job"
       /\ launches[r].steps =
            { << data_sets[i].group, data_sets[i].name >> : i \in 1..Len(data_sets) }
  /\ ticked => now = 1440 + 17 * 60

\* the schedule has launched a run on two Mondays
ScheduleWitness == Len(launches) >= 2 /\ now # 1440 + 17 * 60

\* C9 (as claimed): on an archive with one entry or more, the result is that
\* of parsing the first entry of the listing, whatever the further entries.
FirstEntryOnly ==
  \A u \in Units :
    (Ran(u) /\ GoodArchive(u))
      => df[u][1] = read_csv(response[u][1].content.entries[1].file, call[u][1].date)

\* C10: a 200 whose body is no archive, or an archive without entries, ends
\* the call in an error; the unit fails and publishes nothing.
BadArchiveFails ==
  \A u \in Units :
    (Ran(u) /\ ~response[u][1].raised /\ response[u][1].status_code = 200
       /\ (~response[u][1].content.zip \/ Len(response[u][1].content.entries) = 0))
      => /\ pc[u] = "failed"
         /\ ~df[u][1].ok
         /\ output[u] = << >>
         /\ Key(u) \notin DOMAIN store

\* a unit has failed on a 200 whose archive has no entries
BadArchiveWitness ==
  \E u \in Units :
    /\ pc[u] = "failed"
    /\ response[u][1].status_code = 200
    /\ response[u][1].content.zip
    /\ df[u][1].error = "IndexError"

=============================================================================
